---- MODULE Spec2Model ----
(***************************************************************************)
(* WebStorage (src/src/web_storage.ts): the key/value facade over the host *)
(* localStorage / sessionStorage objects.                                  *)
(*                                                                         *)
(* JavaScript values are tagged records; the strings kept by the host      *)
(* Storage are JSON texts, modelled as sequences of lexical tokens that    *)
(* JSONStringify produces and JSONParse reads back.                        *)
(***************************************************************************)
EXTENDS Integers, Sequences, FiniteSets, TLC

\* ------------------------------------------------------------------------
\* Bounds
\* ------------------------------------------------------------------------

\* WebStorage objects the model lets the constructor build before it stops
\* exploring (the code needs two: one per StorageType).
MaxInstances == 3

\* ------------------------------------------------------------------------
\* JavaScript values
\* ------------------------------------------------------------------------

Null == [kind |-> "null"]

Undefined == [kind |-> "undefined"]

Bool(b) == [kind |-> "bool", b |-> b]

\* numbers are written as their numeral: "1", "0", "-0", "NaN", "Infinity"
Num(n) == [kind |-> "num", n |-> n]

Str(s) == [kind |-> "str", s |-> s]

Arr(elems) == [kind |-> "arr", elems |-> elems]

\* an object literal: its own properties in insertion order, <<name, value>>
Rec(fields) == [kind |-> "rec", fields |-> fields]

\* typeof value === "string" || "number" || "boolean" || value === null
isPrimitive(value) == value.kind \in {"str", "num", "bool", "null"}

\* An object with typeName, intoStorage and fromStorage: `into` is what its
\* intoStorage() returns, `from` names its fromStorage function.
StorableObj(typeName, into, from) ==
    [kind |-> "storable", typeName |-> typeName, into |-> into, from |-> from]

isConversionFunctions(value) == value.kind = "storable"

isStorable(value) == value.kind = "storable" /\ isConversionFunctions(value)

\* the object a FromStorage function `from` builds when called with `arg`
Converted(from, arg) == [kind |-> "obj", by |-> from, arg |-> arg]

\* a thrown error
Throw(name) == [kind |-> "throw", name |-> name]

\* new StorageNotAvailableError(storageType)
StorageNotAvailableError(storageType) ==
    [kind |-> "throw", name |-> "StorageNotAvailableError",
     storageType |-> storageType]

IsThrow(r) == r.kind = "throw"

\* ------------------------------------------------------------------------
\* JSON.stringify / JSON.parse (host built-ins used by storeSync / loadSync)
\* ------------------------------------------------------------------------

Tok(tok, s) == [tok |-> tok, s |-> s]

P(s) == Tok("p", s)

NonFinite == {"NaN", "Infinity", "-Infinity"}

RECURSIVE JSONStringify(_), StringifyElems(_), StringifyMembers(_)

\* JSON.stringify(v) for a value without functions or undefined
JSONStringify(v) ==
    CASE v.kind = "null" -> <<Tok("lit", "null")>>
      [] v.kind = "bool" -> <<Tok("lit", IF v.b THEN "true" ELSE "false")>>
      [] v.kind = "num" ->
            IF v.n \in NonFinite THEN <<Tok("lit", "null")>>
            ELSE IF v.n = "-0" THEN <<Tok("num", "0")>>
            ELSE <<Tok("num", v.n)>>
      [] v.kind = "str" -> <<Tok("str", v.s)>>
      [] v.kind = "arr" -> <<P("[")>> \o StringifyElems(v.elems) \o <<P("]")>>
      [] v.kind = "rec" -> <<P("{")>> \o StringifyMembers(v.fields) \o <<P("}")>>

StringifyElems(es) ==
    IF es = <<>> THEN <<>>
    ELSE JSONStringify(Head(es)) \o
         (IF Len(es) > 1 THEN <<P(",")>> \o StringifyElems(Tail(es)) ELSE <<>>)

StringifyMembers(fs) ==
    IF fs = <<>> THEN <<>>
    ELSE <<Tok("str", Head(fs)[1]), P(":")>> \o JSONStringify(Head(fs)[2]) \o
         (IF Len(fs) > 1 THEN <<P(",")>> \o StringifyMembers(Tail(fs)) ELSE <<>>)

ParseFail == [ok |-> FALSE, val |-> Null, rest |-> <<>>]

ParseOk(val, rest) == [ok |-> TRUE, val |-> val, rest |-> rest]

RECURSIVE ParseValue(_), ParseElems(_, _), ParseMembers(_, _)

ParseValue(ts) ==
    IF ts = <<>> THEN ParseFail
    ELSE LET h == Head(ts)
             t == Tail(ts)
         IN CASE h.tok = "lit" ->
                    IF h.s = "null" THEN ParseOk(Null, t)
                    ELSE IF h.s = "true" THEN ParseOk(Bool(TRUE), t)
                    ELSE IF h.s = "false" THEN ParseOk(Bool(FALSE), t)
                    ELSE ParseFail
              [] h.tok = "num" -> ParseOk(Num(h.s), t)
              [] h.tok = "str" -> ParseOk(Str(h.s), t)
              [] h = P("[") ->
                    IF t # <<>> /\ Head(t) = P("]") THEN ParseOk(Arr(<<>>), Tail(t))
                    ELSE ParseElems(t, <<>>)
              [] h = P("{") ->
                    IF t # <<>> /\ Head(t) = P("}") THEN ParseOk(Rec(<<>>), Tail(t))
                    ELSE ParseMembers(t, <<>>)
              [] OTHER -> ParseFail

ParseElems(ts, acc) ==
    LET r == ParseValue(ts)
    IN IF ~r.ok \/ r.rest = <<>> THEN ParseFail
       ELSE IF Head(r.rest) = P(",")
            THEN ParseElems(Tail(r.rest), Append(acc, r.val))
       ELSE IF Head(r.rest) = P("]")
            THEN ParseOk(Arr(Append(acc, r.val)), Tail(r.rest))
       ELSE ParseFail

ParseMembers(ts, acc) ==
    IF Len(ts) < 3 \/ ts[1].tok # "str" \/ ts[2] # P(":") THEN ParseFail
    ELSE LET r == ParseValue(SubSeq(ts, 3, Len(ts)))
         IN IF ~r.ok \/ r.rest = <<>> THEN ParseFail
            ELSE IF Head(r.rest) = P(",")
                 THEN ParseMembers(Tail(r.rest), Append(acc, <<ts[1].s, r.val>>))
            ELSE IF Head(r.rest) = P("}")
                 THEN ParseOk(Rec(Append(acc, <<ts[1].s, r.val>>)), Tail(r.rest))
            ELSE ParseFail

\* JSON.parse(text): the value, or a thrown SyntaxError
JSONParse(text) ==
    LET r == ParseValue(text)
    IN IF r.ok /\ r.rest = <<>> THEN r.val ELSE Throw("SyntaxError")

\* value[name] for a parsed value: TypeError on null, undefined when the
\* property is missing
RECURSIVE GetField(_, _)
GetField(fs, name) ==
    IF fs = <<>> THEN Undefined
    ELSE IF fs[Len(fs)][1] = name THEN fs[Len(fs)][2]
    ELSE GetField(SubSeq(fs, 1, Len(fs) - 1), name)

GetProp(value, name) ==
    IF value.kind \in {"null", "undefined"} THEN Throw("TypeError")
    ELSE IF value.kind = "rec" THEN GetField(value.fields, name)
    ELSE Undefined

\* ------------------------------------------------------------------------
\* Host Storage objects (self.localStorage / self.sessionStorage)
\* ------------------------------------------------------------------------

\* enum StorageType
StorageTypes == {"Local", "Session"}

\* the key and string isAvailable writes to probe the storage
ProbeKey == "test"

ProbeText == <<Tok("lit", "test")>>

\* a Storage with no entries; a Storage is a function from its keys to texts
EmptyStorage == [k \in {} |-> <<>>]

\* what a call of storage.setItem can do: succeed, raise a DOMException
\* (named QuotaExceededError or otherwise), or raise another error
SetItemOutcomes == {"ok", "QuotaExceededError", "SecurityError", "Error"}

DOMExceptionNames == {"QuotaExceededError", "SecurityError"}

SetItem(storage, key, text) ==
    [k \in DOMAIN storage \cup {key} |-> IF k = key THEN text ELSE storage[k]]

RemoveItemHost(storage, key) ==
    [k \in DOMAIN storage \ {key} |-> storage[k]]

\* storage.getItem(key): the string, or null
GetItem(storage, key) ==
    IF key \in DOMAIN storage THEN [kind |-> "string", text |-> storage[key]]
    ELSE Null

StorageLength(storage) == Cardinality(DOMAIN storage)

\* JSON.parse converts its argument to a string first: null reads as "null"
ToText(x) == IF x.kind = "null" THEN <<Tok("lit", "null")>> ELSE x.text

\* ------------------------------------------------------------------------
\* Inputs
\* ------------------------------------------------------------------------

\* keys the callers pass to the instance methods
CallKeys == {"a", ProbeKey}

\* keys the host storage can hold: those, and the empty string left there
\* by an earlier page load
Keys == CallKeys \cup {""}

TypeNames == {"User"}

FromStorageFns == {"f1", "f2"}

UserData == Rec(<< <<"firstName", Str("T")>> >>)

PlainValues == {Rec(<< <<"n", Arr(<<Num("1"), Str("s")>>)>> >>), Num("NaN")}

Storables ==
    {StorableObj("User", UserData, "f1"), StorableObj("User", UserData, "f2")}

Values == PlainValues \cup Storables

\* the storage whose instance methods the callers use
InstanceTypes == {"Local"}

\* what setItem does when storeSync calls it
StoreOutcomes == {"ok", "QuotaExceededError"}

\* ------------------------------------------------------------------------
\* WebStorage
\* ------------------------------------------------------------------------

\* Map.set on the conversionMap
MapSet(map, key, val) ==
    [k \in DOMAIN map \cup {key} |-> IF k = key THEN val ELSE map[k]]

EmptyMap == [k \in {} |-> ""]

\* isAvailable() that takes every QuotaExceededError as a full, usable storage
isAvailable_anyQuotaError(storage, outcome) ==
    IF outcome = "ok"
    THEN [result |-> Bool(TRUE),
          storage |-> RemoveItemHost(SetItem(storage, ProbeKey, ProbeText), ProbeKey)]
    ELSE IF outcome \notin DOMExceptionNames
    THEN [result |-> Throw(outcome), storage |-> storage]
    ELSE [result |-> Bool(outcome = "QuotaExceededError"), storage |-> storage]

\* private static isAvailable(storage)
isAvailable(storage, outcome) ==
    IF outcome = "ok"
    THEN [result |-> Bool(TRUE),
          storage |-> RemoveItemHost(SetItem(storage, ProbeKey, ProbeText), ProbeKey)]
    ELSE IF outcome \notin DOMExceptionNames
    THEN [result |-> Throw(outcome), storage |-> storage]
    ELSE [result |-> Bool(outcome = "QuotaExceededError" /\ StorageLength(storage) # 0),
          storage |-> storage]

\* private constructor(storageType)
NewWebStorage(storageType, storage) ==
    [storageType |-> storageType,
     keys |-> {k \in DOMAIN storage : k # ""},
     conversionMap |-> EmptyMap]

\* create() that builds the instance whatever the probe returned
create_ignoresProbe(storageType, storage, outcome) ==
    LET a == isAvailable(storage, outcome)
    IN IF IsThrow(a.result)
       THEN [result |-> a.result, storage |-> a.storage, probe |-> a.result]
       ELSE [result |-> [kind |-> "new",
                         inst |-> NewWebStorage(storageType, a.storage)],
             storage |-> a.storage, probe |-> a.result]

\* private static create(storageType): result is "new" when an instance is
\* built (inst), or the error thrown
create(storageType, storage, outcome) ==
    LET a == isAvailable(storage, outcome)
    IN IF IsThrow(a.result)
       THEN [result |-> a.result, storage |-> a.storage, probe |-> a.result]
       ELSE IF ~a.result.b
       THEN [result |-> StorageNotAvailableError(storageType),
             storage |-> a.storage, probe |-> a.result]
       ELSE [result |-> [kind |-> "new",
                         inst |-> NewWebStorage(storageType, a.storage)],
             storage |-> a.storage, probe |-> a.result]

hasKey(inst, key) == key \in inst.keys

length(storage) == StorageLength(storage)

\* makeStorageItem() that leaves the type name out of the item
makeStorageItem_untagged(value) ==
    [item |-> Rec(<< <<"itemType", Null>>,
                     <<"value", IF isStorable(value) THEN value.into ELSE value>> >>),
     intoCalls |-> IF isStorable(value) THEN 1 ELSE 0]

makeStorageItem(value) ==
    LET isStorableType == isStorable(value)
        itemType == IF isStorableType THEN Str(value.typeName) ELSE Null
        itemValue == IF isStorableType THEN value.into ELSE value
    IN [item |-> Rec(<< <<"itemType", itemType>>, <<"value", itemValue>> >>),
        intoCalls |-> IF isStorableType THEN 1 ELSE 0]

\* storeSync() that keeps the converter a type name already has
storeSync_firstWriter(storage, inst, key, value, outcome) ==
    LET m == makeStorageItem(value)
    IN IF outcome # "ok"
       THEN [storage |-> storage, inst |-> inst, result |-> Throw(outcome),
             intoCalls |-> m.intoCalls, promise |-> "none"]
       ELSE [storage |-> SetItem(storage, key, JSONStringify(m.item)),
             inst |-> [inst EXCEPT
                         !.keys = @ \cup {key},
                         !.conversionMap =
                             IF isStorable(value) /\ value.typeName \notin DOMAIN @
                             THEN MapSet(@, value.typeName, value.from)
                             ELSE @],
             result |-> Undefined,
             intoCalls |-> m.intoCalls, promise |-> "none"]

\* storeSync() that does not add the key to the key set
storeSync_forgetsKey(storage, inst, key, value, outcome) ==
    LET m == makeStorageItem(value)
    IN IF outcome # "ok"
       THEN [storage |-> storage, inst |-> inst, result |-> Throw(outcome),
             intoCalls |-> m.intoCalls, promise |-> "none"]
       ELSE [storage |-> SetItem(storage, key, JSONStringify(m.item)),
             inst |-> [inst EXCEPT
                         !.conversionMap =
                             IF isStorable(value)
                             THEN MapSet(@, value.typeName, value.from)
                             ELSE @],
             result |-> Undefined,
             intoCalls |-> m.intoCalls, promise |-> "none"]

storeSync(storage, inst, key, value, outcome) ==
    LET m == makeStorageItem(value)
    IN IF outcome # "ok"
       THEN [storage |-> storage, inst |-> inst, result |-> Throw(outcome),
             intoCalls |-> m.intoCalls, promise |-> "none"]
       ELSE [storage |-> SetItem(storage, key, JSONStringify(m.item)),
             inst |-> [inst EXCEPT
                         !.keys = @ \cup {key},
                         !.conversionMap =
                             IF isStorable(value)
                             THEN MapSet(@, value.typeName, value.from)
                             ELSE @],
             result |-> Undefined,
             intoCalls |-> m.intoCalls, promise |-> "none"]

\* store() whose executor runs after store() has returned
store_deferred(storage, inst, key, value, outcome) ==
    [storage |-> storage, inst |-> inst, result |-> Undefined,
     intoCalls |-> 0, promise |-> "pending"]

\* new Promise(executor) runs the executor before it returns
store(storage, inst, key, value, outcome) ==
    LET r == storeSync(storage, inst, key, value, outcome)
    IN [r EXCEPT !.promise = IF IsThrow(r.result) THEN "rejected" ELSE "resolved"]

loadSync(storage, inst, key) ==
    IF ~hasKey(inst, key) THEN [result |-> Null, fromCalls |-> <<>>]
    ELSE LET item == JSONParse(ToText(GetItem(storage, key)))
             itemType == GetProp(item, "itemType")
         IN IF IsThrow(item) THEN [result |-> item, fromCalls |-> <<>>]
            ELSE IF IsThrow(itemType) THEN [result |-> itemType, fromCalls |-> <<>>]
            ELSE IF itemType = Null
            THEN [result |-> GetProp(item, "value"), fromCalls |-> <<>>]
            ELSE IF itemType.kind = "str" /\ itemType.s \in DOMAIN inst.conversionMap
            THEN LET fromStorage == inst.conversionMap[itemType.s]
                 IN [result |-> Converted(fromStorage, GetProp(item, "value")),
                     fromCalls |-> << <<fromStorage, GetProp(item, "value")>> >>]
            ELSE [result |-> GetProp(item, "value"), fromCalls |-> <<>>]

load(storage, inst, key) ==
    LET r == loadSync(storage, inst, key)
    IN [result |-> r.result, fromCalls |-> r.fromCalls,
        promise |-> IF IsThrow(r.result) THEN "rejected" ELSE "resolved"]

\* removeItemSync() that leaves the key in the key set
removeItemSync_keepsKey(storage, inst, key) ==
    [storage |-> RemoveItemHost(storage, key), inst |-> inst, promise |-> "none"]

removeItemSync(storage, inst, key) ==
    [storage |-> RemoveItemHost(storage, key),
     inst |-> [inst EXCEPT !.keys = @ \ {key}],
     promise |-> "none"]

removeItem(storage, inst, key) ==
    [removeItemSync(storage, inst, key) EXCEPT !.promise = "resolved"]

\* clearSync() that leaves the key set as it is
clearSync_keepsKeys(storage, inst) ==
    [storage |-> EmptyStorage, inst |-> inst, promise |-> "none"]

clearSync(storage, inst) ==
    [storage |-> EmptyStorage,
     inst |-> [inst EXCEPT !.keys = {}],
     promise |-> "none"]

clear(storage, inst) ==
    [clearSync(storage, inst) EXCEPT !.promise = "resolved"]

\* ------------------------------------------------------------------------
\* State
\* ------------------------------------------------------------------------

VARIABLES
    host,           \* the two host Storage objects, by StorageType
    local,          \* WebStorage._local: an index into instances, 0 for null
    session,        \* WebStorage._session
    instances,      \* every WebStorage object built so far
    last,           \* the last call: its arguments, result and callbacks
    written,        \* history: by storage, the value last stored under each
                    \* key and not removed or cleared since
    latest,         \* history: by storage and type name, the fromStorage
                    \* of the Storable stored most recently
    refused,        \* history: storage types found unavailable by a get
                    \* call and not created since
    syncHost,       \* history: host, had every asynchronous call been the
    syncInstances   \* synchronous one; and instances likewise

webVars == <<host, local, session, instances, last, written, latest, refused,
             syncHost, syncInstances>>

VARIABLES
    dbs,            \* host: the databases of this origin, by name
    conns,          \* host: every IDBDatabase connection handed out so far
    reqs,           \* host: every open or delete request issued so far
    calls,          \* every asynchronous IndexedDB call: position and promise
    idbs            \* every IndexedDB object built so far

idbVars == <<dbs, conns, reqs, calls, idbs>>

VARIABLES
    txs,            \* every Transaction wrapper built so far
    hostTxs,        \* host: every IDBTransaction, its state and calls received
    lastTx          \* the last Transaction call: its result

txVars == <<txs, hostTxs, lastTx>>

VARIABLES
    storageHost,    \* host: navigator.storage, its bucket and calls received
    manager,        \* BrowserStorageManager._instance and its _isPersisted
    persists        \* every persist() call: position and promise

smVars == <<storageHost, manager, persists>>

VARIABLES
    errors          \* every IndexedDBError constructed: its kind, message read

errVars == <<errors>>

vars == <<host, local, session, instances, last, written, latest, refused,
          syncHost, syncInstances, dbs, conns, reqs, calls, idbs,
          txs, hostTxs, lastTx, storageHost, manager, persists, errors>>

\* no IndexedDBError has been constructed by the page
IdleErr == errors = <<>>

\* nothing of IndexedDB has been used
IdleIDB ==
    /\ dbs = [n \in {} |-> 0]
    /\ conns = <<>>
    /\ reqs = <<>>
    /\ calls = <<>>
    /\ idbs = <<>>

\* no Transaction has been begun
IdleTx ==
    /\ txs = <<>>
    /\ hostTxs = <<>>
    /\ lastTx = [op |-> "none", tx |-> 0, name |-> "", held |-> FALSE,
                 result |-> "", hostCalls |-> 0]

\* BrowserStorageManager.instance has not been read
IdleSM ==
    /\ storageHost = [persisted |-> FALSE, hasPersist |-> TRUE, persistCalls |-> 0]
    /\ manager = [made |-> FALSE, isPersisted |-> FALSE, checking |-> FALSE]
    /\ persists = <<>>

None == [kind |-> "none"]

InstanceRef(id) == [kind |-> "instance", id |-> id]

\* A call record.  intoCalls / fromCalls: the calls it made of the argument's
\* intoStorage and of fromStorage functions; probe: what isAvailable returned
\* if it ran; promise: the state of the returned promise.  History fields:
\* syncResult, what the synchronous method returns for the same call; retry,
\* the call built the instance after an earlier call was refused;
\* lengthBefore, storage.length when clear was called.
Call(op, st, key, arg, result, intoCalls, fromCalls, probe, promise) ==
    [op |-> op, storageType |-> st, key |-> key, arg |-> arg,
     result |-> result, intoCalls |-> intoCalls, fromCalls |-> fromCalls,
     probe |-> probe, promise |-> promise,
     syncResult |-> None, retry |-> FALSE, lengthBefore |-> 0]

Singleton(t) == IF t = "Local" THEN local ELSE session

\* entries other code, or an earlier page load, left in the storage
InitTexts ==
    {JSONStringify(makeStorageItem(StorableObj("User", UserData, "f1")).item)}

\* localStorage outlives the page; a new tab's sessionStorage is empty
InitStorages(t) ==
    IF t = "Local" THEN UNION {[D -> InitTexts] : D \in SUBSET Keys}
    ELSE {EmptyStorage}

Init ==
    /\ host \in {h \in [StorageTypes -> InitStorages("Local")] :
                    \A t \in StorageTypes : h[t] \in InitStorages(t)}
    /\ local = 0
    /\ session = 0
    /\ instances = <<>>
    /\ last = Call("none", "Local", "", None, None, 0, <<>>, None, "none")
    /\ written = [t \in StorageTypes |-> EmptyStorage]
    /\ latest = [t \in StorageTypes |-> EmptyMap]
    /\ refused = {}
    /\ syncHost = host
    /\ syncInstances = instances
    /\ IdleIDB
    /\ IdleTx
    /\ IdleSM
    /\ IdleErr

\* ------------------------------------------------------------------------
\* Static methods
\* ------------------------------------------------------------------------

Probe(t, outcome) ==
    LET a == isAvailable(host[t], outcome)
    IN /\ host' = [host EXCEPT ![t] = a.storage]
       /\ syncHost' = [syncHost EXCEPT ![t] = isAvailable(@, outcome).storage]
       /\ last' = Call(IF t = "Local" THEN "localIsAvailable"
                       ELSE "sessionIsAvailable",
                       t, "", None, a.result, 0, <<>>, a.result, "none")
       /\ UNCHANGED <<local, session, instances, written, latest, refused,
                      syncInstances>>
       /\ UNCHANGED <<idbVars, txVars, smVars, errVars>>

localIsAvailable == \E outcome \in SetItemOutcomes : Probe("Local", outcome)

sessionIsAvailable == \E outcome \in SetItemOutcomes : Probe("Session", outcome)

\* a getter that does not look at the cached singleton
NeedsCreate_always(t) == TRUE

\* if (!WebStorage._local) / if (!WebStorage._session)
NeedsCreate(t) == Singleton(t) = 0

\* getLocal / getSession when the singleton is already set
GetCached(t, op) ==
    /\ ~NeedsCreate(t)
    /\ last' = Call(op, t, "", None, InstanceRef(Singleton(t)), 0, <<>>, None, "none")
    /\ UNCHANGED <<host, local, session, instances, written, latest, refused,
                   syncHost, syncInstances>>
    /\ UNCHANGED <<idbVars, txVars, smVars, errVars>>

\* getLocal / getSession when it is null: create(), then the assignment
GetCreate(t, op, outcome) ==
    /\ NeedsCreate(t)
    /\ Len(instances) < MaxInstances
    /\ LET c == create(t, host[t], outcome)
           g == create(t, syncHost[t], outcome)
           id == Len(instances) + 1
       IN /\ host' = [host EXCEPT ![t] = c.storage]
          /\ syncHost' = [syncHost EXCEPT ![t] = g.storage]
          /\ IF c.result.kind = "new"
             THEN /\ instances' = Append(instances, c.result.inst)
                  /\ syncInstances' = Append(syncInstances, g.result.inst)
                  /\ IF t = "Local"
                     THEN local' = id /\ UNCHANGED session
                     ELSE session' = id /\ UNCHANGED local
                  /\ last' = [Call(op, t, "", None, InstanceRef(id), 0, <<>>,
                                   c.probe, "none")
                                EXCEPT !.retry = t \in refused]
                  /\ refused' = refused \ {t}
             ELSE /\ UNCHANGED <<instances, syncInstances, local, session>>
                  /\ last' = Call(op, t, "", None, c.result, 0, <<>>,
                                  c.probe, "none")
                  /\ refused' = IF c.result = StorageNotAvailableError(t)
                                THEN refused \cup {t} ELSE refused
          /\ UNCHANGED <<written, latest>>
    /\ UNCHANGED <<idbVars, txVars, smVars, errVars>>

getLocal ==
    \/ GetCached("Local", "getLocal")
    \/ \E outcome \in SetItemOutcomes : GetCreate("Local", "getLocal", outcome)

getSession ==
    \/ GetCached("Session", "getSession")
    \/ \E outcome \in SetItemOutcomes : GetCreate("Session", "getSession", outcome)

\* ------------------------------------------------------------------------
\* Instance methods, called on the instance getLocal / getSession returned
\* ------------------------------------------------------------------------

\* the state after a method call that left storage s and instance i behind
Effect(t, r, g) ==
    /\ host' = [host EXCEPT ![t] = r.storage]
    /\ instances' = [instances EXCEPT ![Singleton(t)] = r.inst]
    /\ syncHost' = [syncHost EXCEPT ![t] = g.storage]
    /\ syncInstances' = [syncInstances EXCEPT ![Singleton(t)] = g.inst]
    /\ UNCHANGED <<local, session, refused>>
    /\ UNCHANGED <<idbVars, txVars, smVars, errVars>>

StoreCall(t, op, key, value, r, g) ==
    /\ Effect(t, r, g)
    /\ written' = IF IsThrow(g.result) THEN written
                  ELSE [written EXCEPT ![t] = SetItem(@, key, value)]
    /\ latest' = IF IsThrow(g.result) \/ ~isStorable(value) THEN latest
                 ELSE [latest EXCEPT ![t] = MapSet(@, value.typeName, value.from)]
    /\ last' = [Call(op, t, key, value, r.result, r.intoCalls, <<>>, None, r.promise)
                EXCEPT !.syncResult = g.result]

StoreSync ==
    \E t \in InstanceTypes, outcome \in StoreOutcomes :
      \E key \in CallKeys, value \in Values :
        /\ Singleton(t) # 0
        /\ StoreCall(t, "storeSync", key, value,
              storeSync(host[t], instances[Singleton(t)], key, value, outcome),
              storeSync(syncHost[t], syncInstances[Singleton(t)], key, value, outcome))

Store ==
    \E t \in InstanceTypes, outcome \in StoreOutcomes :
      \E key \in CallKeys, value \in Values :
        /\ Singleton(t) # 0
        /\ StoreCall(t, "store", key, value,
              store(host[t], instances[Singleton(t)], key, value, outcome),
              storeSync(syncHost[t], syncInstances[Singleton(t)], key, value, outcome))

LoadSync ==
    \E t \in InstanceTypes : \E key \in CallKeys :
        /\ Singleton(t) # 0
        /\ LET r == loadSync(host[t], instances[Singleton(t)], key)
           IN last' = Call("loadSync", t, key, None, r.result, 0, r.fromCalls,
                           None, "none")
        /\ UNCHANGED <<host, local, session, instances, written, latest, refused,
                       syncHost, syncInstances>>
        /\ UNCHANGED <<idbVars, txVars, smVars, errVars>>

Load ==
    \E t \in InstanceTypes : \E key \in CallKeys :
        /\ Singleton(t) # 0
        /\ LET r == load(host[t], instances[Singleton(t)], key)
              g == loadSync(syncHost[t], syncInstances[Singleton(t)], key)
           IN last' = [Call("load", t, key, None, r.result, 0, r.fromCalls,
                            None, r.promise)
                       EXCEPT !.syncResult = g.result]
        /\ UNCHANGED <<host, local, session, instances, written, latest, refused,
                       syncHost, syncInstances>>
        /\ UNCHANGED <<idbVars, txVars, smVars, errVars>>

RemoveCall(t, op, key, r, g) ==
    /\ Effect(t, r, g)
    /\ written' = [written EXCEPT ![t] = RemoveItemHost(@, key)]
    /\ last' = [Call(op, t, key, None, Undefined, 0, <<>>, None, r.promise)
                EXCEPT !.syncResult = Undefined]
    /\ UNCHANGED latest

RemoveItemSync ==
    \E t \in InstanceTypes : \E key \in CallKeys :
        /\ Singleton(t) # 0
        /\ RemoveCall(t, "removeItemSync", key,
              removeItemSync(host[t], instances[Singleton(t)], key),
              removeItemSync(syncHost[t], syncInstances[Singleton(t)], key))

RemoveItem ==
    \E t \in InstanceTypes : \E key \in CallKeys :
        /\ Singleton(t) # 0
        /\ RemoveCall(t, "removeItem", key,
              removeItem(host[t], instances[Singleton(t)], key),
              removeItemSync(syncHost[t], syncInstances[Singleton(t)], key))

ClearCall(t, op, r, g) ==
    /\ Effect(t, r, g)
    /\ written' = [written EXCEPT ![t] = EmptyStorage]
    /\ last' = [Call(op, t, "", None, Undefined, 0, <<>>, None, r.promise)
                EXCEPT !.syncResult = Undefined,
                       !.lengthBefore = length(host[t])]
    /\ UNCHANGED latest

ClearSync ==
    \E t \in InstanceTypes :
        /\ Singleton(t) # 0
        /\ ClearCall(t, "clearSync",
              clearSync(host[t], instances[Singleton(t)]),
              clearSync(syncHost[t], syncInstances[Singleton(t)]))

Clear ==
    \E t \in InstanceTypes :
        /\ Singleton(t) # 0
        /\ ClearCall(t, "clear",
              clear(host[t], instances[Singleton(t)]),
              clearSync(syncHost[t], syncInstances[Singleton(t)]))

\* every state getLocal() followed by clearSync() can leave behind
InitCleared ==
    /\ host = [t \in StorageTypes |-> EmptyStorage]
    /\ local = 1
    /\ session = 0
    /\ \E map \in {EmptyMap} \cup {MapSet(EmptyMap, s.typeName, s.from) : s \in Storables} :
         /\ instances = <<[storageType |-> "Local", keys |-> {},
                           conversionMap |-> map]>>
         /\ latest = [t \in StorageTypes |-> IF t = "Local" THEN map ELSE EmptyMap]
    /\ last = [Call("clearSync", "Local", "", None, Undefined, 0, <<>>, None, "none")
               EXCEPT !.syncResult = Undefined]
    /\ written = [t \in StorageTypes |-> EmptyStorage]
    /\ refused = {}
    /\ syncHost = host
    /\ syncInstances = instances
    /\ IdleIDB
    /\ IdleTx
    /\ IdleSM
    /\ IdleErr

\* a cleared storage, then stores, removals and loads only
NextCleared ==
    \/ StoreSync
    \/ Store
    \/ RemoveItemSync
    \/ RemoveItem
    \/ LoadSync
    \/ Load

SpecCleared == InitCleared /\ [][NextCleared]_vars

\* the static methods, on both storage types
NextStatic ==
    \/ localIsAvailable
    \/ sessionIsAvailable
    \/ getLocal
    \/ getSession

SpecStatic == Init /\ [][NextStatic]_vars

\* one storage and its instance: the static methods that reach it and
\* every instance method
Next ==
    \/ localIsAvailable
    \/ getLocal
    \/ StoreSync
    \/ Store
    \/ LoadSync
    \/ Load
    \/ RemoveItemSync
    \/ RemoveItem
    \/ ClearSync
    \/ Clear

Spec == Init /\ [][Next]_vars

\* ------------------------------------------------------------------------
\* Properties
\* ------------------------------------------------------------------------

HasInstance(t) == Singleton(t) # 0

Instance(t) == instances[Singleton(t)]

\* what loadSync(k) returns in the current state
Loaded(t, k) == loadSync(host[t], Instance(t), k).result

\* what hasKey(k) and loadSync(k) return after the step
HasKeyAfter(t, k) == hasKey(instances'[Singleton(t)'], k)

LoadedAfter(t, k) == loadSync(host'[t], instances'[Singleton(t)'], k).result

\* JSON.parse(JSON.stringify(v))
JSONRoundTrip(v) == JSONParse(JSONStringify(v))

StoreOps == {"storeSync", "store"}

LoadOps == {"loadSync", "load"}

RemoveOps == {"removeItemSync", "removeItem"}

ClearOps == {"clearSync", "clear"}

GetOps == {"getLocal", "getSession"}

AsyncOps == {"store", "load", "removeItem", "clear"}

\* C1: every key under which a plain value v was stored, and which was not
\* stored again, removed or cleared since, loads a value equal to v.
C1_RoundTrip ==
    \A t \in StorageTypes :
        HasInstance(t) =>
            \A k \in DOMAIN written[t] :
                written[t][k] \in PlainValues => Loaded(t, k) = written[t][k]

\* C2: a step of removeItemSync(k) or removeItem(k) leaves hasKey(k) false
\* and loadSync(k) null, keeps every other key's presence in the key set and
\* in the host storage and what it loads, and changes neither the storage nor
\* the instance when k was absent from both.
C2_Remove ==
    [][\A t \in StorageTypes, k \in Keys :
         (last'.op \in RemoveOps /\ last'.storageType = t /\ last'.key = k) =>
            /\ ~HasKeyAfter(t, k)
            /\ LoadedAfter(t, k) = Null
            /\ k \notin DOMAIN host'[t]
            /\ \A k2 \in Keys \ {k} :
                 /\ HasKeyAfter(t, k2) = hasKey(Instance(t), k2)
                 /\ (k2 \in DOMAIN host'[t]) = (k2 \in DOMAIN host[t])
                 /\ LoadedAfter(t, k2) = Loaded(t, k2)
            /\ (~hasKey(Instance(t), k) /\ k \notin DOMAIN host[t]) =>
                 (host' = host /\ instances' = instances)]_vars

\* a key was removed while another key stays stored and known
C2_Witness ==
    /\ last.op = "removeItem"
    /\ \E k2 \in Keys \ {last.key} :
         k2 \in DOMAIN host[last.storageType] /\ hasKey(Instance(last.storageType), k2)

\* C3: hasKey(k) is true exactly when the host storage holds an entry for k.
C3_KeysMirrorStorage ==
    \A t \in StorageTypes :
        HasInstance(t) =>
            \A k \in Keys : hasKey(Instance(t), k) = (k \in DOMAIN host[t])

\* C4: storeSync(k, s) of a Storable s calls s.intoStorage() once and, when
\* it succeeds, leaves under k the item tagged s.typeName holding the result;
\* loadSync(k) then calls the fromStorage registered for that type name once,
\* with the stored value, and returns what that call returns.
C4_TypedRoundTrip ==
    (last.op \in StoreOps /\ isStorable(last.arg)) =>
        /\ last.intoCalls = 1
        /\ ~IsThrow(last.result) =>
             LET t == last.storageType
                 k == last.key
                 s == last.arg
                 item == JSONParse(ToText(GetItem(host[t], k)))
                 stored == GetProp(item, "value")
                 l == loadSync(host[t], Instance(t), k)
             IN /\ GetProp(item, "itemType") = Str(s.typeName)
                /\ stored = JSONRoundTrip(s.into)
                /\ Instance(t).conversionMap[s.typeName] = s.from
                /\ l.fromCalls = << <<s.from, stored>> >>
                /\ l.result = Converted(s.from, stored)

C4_Witness ==
    /\ last.op = "storeSync"
    /\ isStorable(last.arg)
    /\ ~IsThrow(last.result)
    /\ last.arg.from = "f2"

\* the type name of the item stored under k, or Null / Undefined / an error
ItemTypeOf(t, k) == GetProp(JSONParse(ToText(GetItem(host[t], k))), "itemType")

\* C5: for every known key whose item is tagged with a type name some
\* Storable was stored under, loadSync calls the fromStorage of the Storable
\* of that type name stored most recently, and no other.
C5_LastWriterWins ==
    \A t \in StorageTypes :
        HasInstance(t) =>
            \A k \in Instance(t).keys \cap DOMAIN host[t], tn \in DOMAIN latest[t] :
                ItemTypeOf(t, k) = Str(tn) =>
                    LET l == loadSync(host[t], Instance(t), k)
                    IN /\ Len(l.fromCalls) = 1
                       /\ l.fromCalls[1][1] = latest[t][tn]
                       /\ l.result.by = latest[t][tn]

\* a key stored with one converter while another was stored after it
C5_Witness ==
    \E k \in DOMAIN written["Local"] :
        /\ isStorable(written["Local"][k])
        /\ k \in DOMAIN host["Local"]
        /\ written["Local"][k].typeName \in DOMAIN latest["Local"]
        /\ latest["Local"][written["Local"][k].typeName] # written["Local"][k].from

\* C6: the storage and the instances are those the synchronous calls leave,
\* and an asynchronous call returns a promise already resolved with what the
\* synchronous call returns, or rejected with what it throws.
C6_AsyncIsSync ==
    /\ host = syncHost
    /\ instances = syncInstances
    /\ last.op \in AsyncOps =>
         /\ last.result = last.syncResult
         /\ last.promise = IF IsThrow(last.syncResult) THEN "rejected" ELSE "resolved"

C6_Witness ==
    /\ last.op = "store"
    /\ last.promise = "rejected"
    /\ \E t \in StorageTypes : HasInstance(t) /\ Instance(t).keys # {}

\* C7 as stated: length is the number of keys stored and not removed, and
\* each of them loads the plain value stored under it most recently.
C7_LengthAndValues ==
    /\ length(host["Local"]) = Cardinality(DOMAIN written["Local"])
    /\ \A k \in DOMAIN written["Local"] :
         written["Local"][k] \in PlainValues =>
             Loaded("Local", k) = written["Local"][k]

\* C7, amended: length is the number of keys stored and not removed; a store
\* to a new key raises it by one and a store to a stored key leaves it; each
\* key loads the JSON round trip of the plain value stored under it most
\* recently, or what the latest fromStorage of its type makes of the JSON
\* round trip of the Storable's intoStorage result.
C7_LengthAndJSONValues ==
    /\ [](/\ length(host["Local"]) = Cardinality(DOMAIN written["Local"])
          /\ \A k \in DOMAIN written["Local"] :
               LET v == written["Local"][k]
               IN Loaded("Local", k) =
                    IF isStorable(v)
                    THEN Converted(latest["Local"][v.typeName], JSONRoundTrip(v.into))
                    ELSE JSONRoundTrip(v))
    /\ [][(last'.op \in StoreOps /\ ~IsThrow(last'.result)) =>
            length(host'["Local"]) =
                length(host["Local"]) +
                (IF last'.key \in DOMAIN written["Local"] THEN 0 ELSE 1)]_vars

\* two keys stored, one of them holding NaN
C7_Witness ==
    /\ length(host["Local"]) = 2
    /\ last.op \in StoreOps
    /\ ~IsThrow(last.result)
    /\ \E k \in DOMAIN written["Local"] : written["Local"][k] = Num("NaN")

\* C8: after clearSync() or clear(), length is 0, no key is known and every
\* key loads null.
C8_Clear ==
    last.op \in ClearOps =>
        LET t == last.storageType
        IN /\ length(host[t]) = 0
           /\ \A k \in Keys : ~hasKey(Instance(t), k) /\ Loaded(t, k) = Null

C8_Witness == last.op = "clear" /\ last.lengthBefore = 3 /\ local # 0

InstancesOf(t) == {i \in DOMAIN instances : instances[i].storageType = t}

\* C9: each singleton is of its own storage type, at most one instance per
\* storage type is ever built, the two are distinct, and getLocal() /
\* getSession() return the one instance of their type.
C9_Singletons ==
    /\ \A t \in StorageTypes :
         /\ Cardinality(InstancesOf(t)) <= 1
         /\ HasInstance(t) => Instance(t).storageType = t
    /\ (local # 0 /\ session # 0) => local # session
    /\ (last.op \in GetOps /\ ~IsThrow(last.result)) =>
         /\ last.result = InstanceRef(Singleton(last.storageType))
         /\ InstancesOf(last.storageType) = {last.result.id}
         /\ last.storageType = IF last.op = "getLocal" THEN "Local" ELSE "Session"

\* both instances exist and getLocal() was called again
C9_Witness ==
    /\ local # 0
    /\ session # 0
    /\ last.op = "getLocal"
    /\ last.probe = None

\* C10: when the probe finds the storage not available, getLocal() /
\* getSession() throws StorageNotAvailableError with the storage type and
\* leaves the singleton null; a later call probes again and returns the
\* instance once the probe succeeds.
C10_NotAvailable ==
    /\ \A t \in refused : Singleton(t) = 0
    /\ (last.op \in GetOps /\ last.probe = Bool(FALSE)) =>
         /\ last.result = StorageNotAvailableError(last.storageType)
         /\ Singleton(last.storageType) = 0
         /\ last.storageType \in refused
    /\ (last.op \in GetOps /\ last.retry) =>
         /\ last.probe = Bool(TRUE)
         /\ last.result = InstanceRef(Singleton(last.storageType))

\* a call returned the instance after an earlier call was refused
C10_Witness == last.op = "getSession" /\ last.retry

\* ------------------------------------------------------------------------
\* IndexedDB (indexed_db.ts): bounds, errors, schemas
\* ------------------------------------------------------------------------

\* asynchronous IndexedDB calls made in one run
MaxCalls == 2

\* highest version another page upgrades a database to
MaxVersion == 2

\* enum IndexedDBErrorKind
IndexedDBErrorKind ==
    {"InvalidVersion", "CreationFailed", "OpenFailed", "DeletionFailed",
     "DBExists", "DBDoesNotExist", "UpgradeBlocked"}

\* the errorKind of new IndexedDBError(): no kind was passed
NoKind == "undefined"

\* export default class IndexedDB: what `this.name` is in a static method
ClassName == "IndexedDB"

DbNames == {ClassName, "app"}

\* indexedDB.open(name) without a version
NoVersion == -1

\* a DatabaseSchema: two object stores, one of them with an index
Schema(name) ==
    [name |-> name,
     objectStores |-> << [name |-> "s", indexes |-> <<"i">>],
                         [name |-> "t", indexes |-> <<>>] >>]

NoSchema == [name |-> "", objectStores |-> <<>>]

\* the object stores of a database the host has just made
NoStores == [s \in {} |-> {}]

\* objectStores.forEach(createObjectStore; indexes?.forEach(createIndex))
\* without the indexes
createStores_noIndexes(stores, objectStores) ==
    [s \in DOMAIN stores \cup {objectStores[i].name : i \in DOMAIN objectStores} |->
        IF s \in DOMAIN stores THEN stores[s] ELSE {}]

\* objectStores.forEach(createObjectStore; indexes?.forEach(createIndex))
createStores(stores, objectStores) ==
    [s \in DOMAIN stores \cup {objectStores[i].name : i \in DOMAIN objectStores} |->
        IF s \in DOMAIN stores THEN stores[s]
        ELSE LET o == objectStores[CHOOSE i \in DOMAIN objectStores :
                                       objectStores[i].name = s]
             IN {o.indexes[j] : j \in DOMAIN o.indexes}]

\* IndexedDB.databaseExists(name), on what indexedDB.databases() answers
databaseExists(name) == name \in DOMAIN dbs

\* the listeners a call adds to its request: the errorKind its promise is
\* rejected with on a host event, "none" where the event has no listener
\* or its listener does not reject
Listener_sameKind(op, event) ==
    CASE op = "create" /\ event \in {"blocked", "error"} -> "CreationFailed"
      [] op = "open" /\ event \in {"blocked", "upgradeneeded", "error"} -> NoKind
      [] op = "reopen" /\ event \in {"error", "blocked", "upgradeneeded"} -> NoKind
      [] op = "deleteDatabase" /\ event = "error" -> "DeletionFailed"
      [] OTHER -> "none"

Listener(op, event) ==
    CASE op = "create" /\ event = "blocked" -> "UpgradeBlocked"
      [] op = "create" /\ event = "error" -> "CreationFailed"
      [] op = "open" /\ event \in {"blocked", "upgradeneeded"} -> NoKind
      [] op = "open" /\ event = "error" -> "OpenFailed"
      [] op = "reopen" /\ event \in {"error", "blocked", "upgradeneeded"} -> NoKind
      [] op = "deleteDatabase" /\ event = "error" -> "DeletionFailed"
      [] OTHER -> "none"

\* reject(new IndexedDBError(kind)): a settled promise stays as it is
Reject(call, kind) ==
    IF call.promise = "pending"
    THEN [call EXCEPT !.promise = "rejected", !.errorKind = kind, !.pc = "done"]
    ELSE call

\* resolve(result)
Resolve(call, result) ==
    IF call.promise = "pending"
    THEN [call EXCEPT !.promise = "resolved", !.result = result, !.pc = "done"]
    ELSE call

\* a call of an async method: it runs to its first await
NewCall(op, name, schema, inst) ==
    [op |-> op, name |-> name, schema |-> schema, inst |-> inst,
     pc |-> "await",            \* "await", then "listening", then "done"
     promise |-> "pending", errorKind |-> "", result |-> 0,
     connectedAtCall |-> FALSE, \* reopen(): was the instance connected
     exists |-> "unknown",      \* what its databaseExists() answered
     nameExisted |-> FALSE,     \* did `name` exist when it answered
     versionThen |-> 0,         \* the version `name` had then
     events |-> <<>>]           \* the host events its listeners got

\* the host connections to database name that are open
OpenConns(name) == {k \in DOMAIN conns : conns[k].name = name /\ conns[k].open}

\* the host requests a call has issued
RequestsOf(c) == {r \in DOMAIN reqs : reqs[r].call = c}

\* self.indexedDB.open(name, version) / self.indexedDB.deleteDatabase(name)
Request(kind, name, version, c) ==
    [kind |-> kind, name |-> name, version |-> version, call |-> c,
     state |-> "queued"]

\* indexedDB.open(name, version) throws a TypeError for a version below 1
OpenThrows(version) == version # NoVersion /\ version < 1

\* ------------------------------------------------------------------------
\* IndexedDB: the static async methods, to their first await and after it
\* ------------------------------------------------------------------------

\* the call's promise is settled before any host request is issued
Settle(c, call) ==
    /\ calls' = [calls EXCEPT ![c] = call]
    /\ UNCHANGED reqs

\* the call issues a host request and adds its listeners to it
Issue(c, call, kind, name, version) ==
    /\ reqs' = Append(reqs, Request(kind, name, version, c))
    /\ calls' = [calls EXCEPT ![c] = [call EXCEPT !.pc = "listening"]]

\* what the awaited databaseExists(asked) answered, and whether the
\* database the call is about existed then
Answered(call, asked) ==
    [call EXCEPT !.exists = IF databaseExists(asked) THEN "yes" ELSE "no",
                 !.nameExisted = databaseExists(call.name),
                 !.versionThen = IF databaseExists(call.name)
                                 THEN dbs[call.name].version ELSE 0]

\* the page makes its calls one after the other: it awaits the promise of
\* each before it makes the next
CanCall ==
    /\ Len(calls) < MaxCalls
    /\ \A c \in DOMAIN calls : calls[c].promise # "pending"

\* IndexedDB.create(schema), to `await IndexedDB.databaseExists(name)`
IndexedDB_create ==
    \E n \in DbNames :
        /\ CanCall
        /\ calls' = Append(calls, NewCall("create", n, Schema(n), 0))
        /\ UNCHANGED <<dbs, conns, reqs, idbs, webVars, txVars, smVars, errVars>>

\* IndexedDB.create(schema), from the await on
IndexedDB_create_then ==
    \E c \in DOMAIN calls :
        /\ calls[c].op = "create" /\ calls[c].pc = "await"
        /\ LET call == Answered(calls[c], calls[c].schema.name)
           IN IF databaseExists(calls[c].schema.name)
              THEN Settle(c, Reject(call, "DBExists"))
              ELSE IF OpenThrows(1)
              THEN Settle(c, Reject(call, "InvalidVersion"))
              ELSE Issue(c, call, "open", calls[c].schema.name, 1)
        /\ UNCHANGED <<dbs, conns, idbs, webVars, txVars, smVars, errVars>>

\* IndexedDB.open(name), to `await IndexedDB.databaseExists(this.name)`
IndexedDB_open ==
    \E n \in DbNames :
        /\ CanCall
        /\ calls' = Append(calls, NewCall("open", n, NoSchema, 0))
        /\ UNCHANGED <<dbs, conns, reqs, idbs, webVars, txVars, smVars, errVars>>

\* IndexedDB.open(name), from the await on: `this` is the class, so the
\* database asked about is the one called ClassName
IndexedDB_open_then ==
    \E c \in DOMAIN calls :
        /\ calls[c].op = "open" /\ calls[c].pc = "await"
        /\ LET call == Answered(calls[c], ClassName)
           IN IF ~databaseExists(ClassName)
              THEN Settle(c, Reject(call, "DBDoesNotExist"))
              ELSE IF OpenThrows(NoVersion)
              THEN Settle(c, Reject(call, NoKind))
              ELSE Issue(c, call, "open", calls[c].name, NoVersion)
        /\ UNCHANGED <<dbs, conns, idbs, webVars, txVars, smVars, errVars>>

\* IndexedDB.deleteDatabase(name), to `await IndexedDB.databaseExists(name)`
deleteDatabase ==
    \E n \in DbNames :
        /\ CanCall
        /\ calls' = Append(calls, NewCall("deleteDatabase", n, NoSchema, 0))
        /\ UNCHANGED <<dbs, conns, reqs, idbs, webVars, txVars, smVars, errVars>>

\* IndexedDB.deleteDatabase(name) without the databaseExists() check
deleteDatabase_then_unchecked ==
    \E c \in DOMAIN calls :
        /\ calls[c].op = "deleteDatabase" /\ calls[c].pc = "await"
        /\ Issue(c, Answered(calls[c], calls[c].name), "delete",
                 calls[c].name, NoVersion)
        /\ UNCHANGED <<dbs, conns, idbs, webVars, txVars, smVars, errVars>>

\* IndexedDB.deleteDatabase(name), from the await on
deleteDatabase_then ==
    \E c \in DOMAIN calls :
        /\ calls[c].op = "deleteDatabase" /\ calls[c].pc = "await"
        /\ LET call == Answered(calls[c], calls[c].name)
           IN IF ~databaseExists(calls[c].name)
              THEN Settle(c, Resolve(call, 0))
              ELSE Issue(c, call, "delete", calls[c].name, NoVersion)
        /\ UNCHANGED <<dbs, conns, idbs, webVars, txVars, smVars, errVars>>

\* ------------------------------------------------------------------------
\* IndexedDB: the instance methods
\* ------------------------------------------------------------------------

\* get isConnected()
isConnected(idb) == idb.dbConnection # 0

\* new IndexedDB(connection)
NewIndexedDB(connection, db) ==
    [dbConnection |-> connection, name |-> db.name, version |-> db.version]

\* reopen() without `if (this.dbConnection) return`
reopen_alwaysAsks ==
    \E i \in DOMAIN idbs :
        /\ CanCall
        /\ calls' = Append(calls, [NewCall("reopen", idbs[i].name, NoSchema, i)
                                   EXCEPT !.connectedAtCall = isConnected(idbs[i])])
        /\ UNCHANGED <<dbs, conns, reqs, idbs, webVars, txVars, smVars, errVars>>

\* reopen(), to `await IndexedDB.databaseExists(this.name)`, or to its
\* return when the connection is open
reopen ==
    \E i \in DOMAIN idbs :
        /\ CanCall
        /\ LET call == [NewCall("reopen", idbs[i].name, NoSchema, i)
                        EXCEPT !.connectedAtCall = isConnected(idbs[i])]
           IN calls' = Append(calls, IF isConnected(idbs[i])
                                     THEN Resolve(call, 0) ELSE call)
        /\ UNCHANGED <<dbs, conns, reqs, idbs, webVars, txVars, smVars, errVars>>

\* reopen(), from the await on
reopen_then ==
    \E c \in DOMAIN calls :
        /\ calls[c].op = "reopen" /\ calls[c].pc = "await"
        /\ LET this == idbs[calls[c].inst]
               call == Answered(calls[c], this.name)
           IN IF ~databaseExists(this.name)
              THEN Settle(c, Reject(call, "DBDoesNotExist"))
              ELSE IF OpenThrows(this.version)
              THEN Settle(c, Reject(call, "InvalidVersion"))
              ELSE Issue(c, call, "open", this.name, this.version)
        /\ UNCHANGED <<dbs, conns, idbs, webVars, txVars, smVars, errVars>>

\* close()
close ==
    \E i \in DOMAIN idbs :
        /\ IF isConnected(idbs[i])
           THEN /\ conns' = [conns EXCEPT ![idbs[i].dbConnection] =
                                [@ EXCEPT !.open = FALSE,
                                          !.closeCalls = @ + 1]]
                /\ idbs' = [idbs EXCEPT ![i].dbConnection = 0]
           ELSE UNCHANGED <<conns, idbs>>
        /\ UNCHANGED <<dbs, reqs, calls, webVars, txVars, smVars, errVars>>

\* ------------------------------------------------------------------------
\* The host's IndexedDB: the events of a request, each with the listener
\* the call added for it
\* ------------------------------------------------------------------------

\* the event reaches the call's listener
Deliver(call, event) ==
    LET heard == [call EXCEPT !.events = Append(@, event)]
        kind == Listener(call.op, event)
    IN IF kind = "none" THEN heard ELSE Reject(heard, kind)

\* an open request asks for a database or a version that is not there
NeedsUpgrade(r) ==
    IF r.name \in DOMAIN dbs
    THEN r.version # NoVersion /\ r.version > dbs[r.name].version
    ELSE TRUE

\* a version change is running on the database
Upgrading(name) ==
    \E r \in DOMAIN reqs : reqs[r].name = name /\ reqs[r].state = "upgrading"

\* 'upgradeneeded': the host has made the database or raised its version
upgradeneeded ==
    \E r \in DOMAIN reqs :
        LET n == reqs[r].name
            c == reqs[r].call
            old == IF n \in DOMAIN dbs THEN dbs[n].stores ELSE NoStores
        IN /\ reqs[r].kind = "open"
           /\ reqs[r].state \in {"queued", "blocked"}
           /\ NeedsUpgrade(reqs[r])
           /\ OpenConns(n) = {} /\ ~Upgrading(n)
           /\ dbs' = MapSet(dbs, n,
                        [version |-> IF reqs[r].version = NoVersion THEN 1
                                     ELSE reqs[r].version,
                         stores |-> IF calls[c].op = "create"
                                    THEN createStores(old, calls[c].schema.objectStores)
                                    ELSE old])
           /\ reqs' = [reqs EXCEPT ![r].state = "upgrading"]
           /\ calls' = [calls EXCEPT ![c] = Deliver(@, "upgradeneeded")]
           /\ UNCHANGED <<conns, idbs, webVars, txVars, smVars, errVars>>

\* 'blocked': the version change of a database waits for the connections
\* to it, of this page or of another, to close
blocked ==
    \E r \in DOMAIN reqs :
        /\ reqs[r].kind = "open"
        /\ reqs[r].state = "queued"
        /\ reqs[r].name \in DOMAIN dbs
        /\ NeedsUpgrade(reqs[r])
        /\ reqs' = [reqs EXCEPT ![r].state = "blocked"]
        /\ calls' = [calls EXCEPT ![reqs[r].call] = Deliver(@, "blocked")]
        /\ UNCHANGED <<dbs, conns, idbs, webVars, txVars, smVars, errVars>>

\* 'error': the request failed, for a version below the database's
\* (VersionError) or for a reason of the host's own
error ==
    \E r \in DOMAIN reqs :
        /\ reqs[r].state = "queued"
        /\ reqs' = [reqs EXCEPT ![r].state = "done"]
        /\ calls' = [calls EXCEPT ![reqs[r].call] = Deliver(@, "error")]
        /\ UNCHANGED <<dbs, conns, idbs, webVars, txVars, smVars, errVars>>

\* 'success' of an open request: the host hands out a connection
success ==
    \E r \in DOMAIN reqs :
        LET n == reqs[r].name
            c == reqs[r].call
            db == [name |-> n, version |-> dbs[n].version, open |-> TRUE,
                   closeCalls |-> 0]
            id == Len(conns) + 1
            heard == [calls[c] EXCEPT !.events = Append(@, "success")]
        IN /\ reqs[r].kind = "open"
           /\ IF reqs[r].state = "queued"
              THEN /\ ~NeedsUpgrade(reqs[r])
                   /\ reqs[r].version \in {NoVersion, dbs[n].version}
                   /\ ~Upgrading(n)
              ELSE reqs[r].state = "upgrading"
           /\ conns' = Append(conns, db)
           /\ reqs' = [reqs EXCEPT ![r].state = "done"]
           /\ IF calls[c].op = "reopen"
              THEN /\ idbs' = [idbs EXCEPT ![calls[c].inst].dbConnection = id]
                   /\ calls' = [calls EXCEPT ![c] = Resolve(heard, 0)]
              ELSE IF calls[c].promise = "pending"
              THEN /\ idbs' = Append(idbs, NewIndexedDB(id, db))
                   /\ calls' = [calls EXCEPT ![c] = Resolve(heard, Len(idbs) + 1)]
              ELSE /\ calls' = [calls EXCEPT ![c] = heard]
                   /\ UNCHANGED idbs
           /\ UNCHANGED <<dbs, webVars, txVars, smVars, errVars>>

\* 'success' of a delete request, once no connection to the database is open
deleted ==
    \E r \in DOMAIN reqs :
        LET n == reqs[r].name
        IN /\ reqs[r].kind = "delete"
           /\ reqs[r].state = "queued"
           /\ OpenConns(n) = {} /\ ~Upgrading(n)
           /\ dbs' = [m \in DOMAIN dbs \ {n} |-> dbs[m]]
           /\ reqs' = [reqs EXCEPT ![r].state = "done"]
           /\ calls' = [calls EXCEPT ![reqs[r].call] =
                            Resolve(Deliver(@, "success"), 0)]
           /\ UNCHANGED <<conns, idbs, webVars, txVars, smVars, errVars>>

\* another page creates a database
otherPageCreates ==
    \E n \in DbNames \ DOMAIN dbs :
        /\ dbs' = MapSet(dbs, n, [version |-> 1, stores |-> NoStores])
        /\ UNCHANGED <<conns, reqs, calls, idbs, webVars, txVars, smVars, errVars>>

\* another page raises the version of a database no one holds open
otherPageUpgrades ==
    \E n \in DOMAIN dbs :
        /\ dbs[n].version < MaxVersion
        /\ OpenConns(n) = {} /\ ~Upgrading(n)
        /\ dbs' = [dbs EXCEPT ![n].version = @ + 1]
        /\ UNCHANGED <<conns, reqs, calls, idbs, webVars, txVars, smVars, errVars>>

\* another page deletes a database no one holds open
otherPageDeletes ==
    \E n \in DOMAIN dbs :
        /\ OpenConns(n) = {} /\ ~Upgrading(n)
        /\ dbs' = [m \in DOMAIN dbs \ {n} |-> dbs[m]]
        /\ UNCHANGED <<conns, reqs, calls, idbs, webVars, txVars, smVars, errVars>>

\* no call of this page has been made; other pages have left databases
InitIDB ==
    /\ host = [t \in StorageTypes |-> EmptyStorage]
    /\ local = 0
    /\ session = 0
    /\ instances = <<>>
    /\ last = Call("none", "Local", "", None, None, 0, <<>>, None, "none")
    /\ written = [t \in StorageTypes |-> EmptyStorage]
    /\ latest = [t \in StorageTypes |-> EmptyMap]
    /\ refused = {}
    /\ syncHost = host
    /\ syncInstances = instances
    /\ \E present \in SUBSET DbNames :
         dbs \in [present -> [version : 1..MaxVersion, stores : {NoStores}]]
    /\ conns = <<>>
    /\ reqs = <<>>
    /\ calls = <<>>
    /\ idbs = <<>>
    /\ IdleTx
    /\ IdleSM
    /\ IdleErr

NextIDB ==
    \/ IndexedDB_create
    \/ IndexedDB_create_then
    \/ IndexedDB_open
    \/ IndexedDB_open_then
    \/ deleteDatabase
    \/ deleteDatabase_then
    \/ reopen
    \/ reopen_then
    \/ close
    \/ upgradeneeded
    \/ error
    \/ success
    \/ deleted

SpecIDB == InitIDB /\ [][NextIDB]_vars

\* IndexedDB.open("app") has resolved with a connected instance, of a
\* database another page had made
InitReopen ==
    /\ host = [t \in StorageTypes |-> EmptyStorage]
    /\ local = 0
    /\ session = 0
    /\ instances = <<>>
    /\ last = Call("none", "Local", "", None, None, 0, <<>>, None, "none")
    /\ written = [t \in StorageTypes |-> EmptyStorage]
    /\ latest = [t \in StorageTypes |-> EmptyMap]
    /\ refused = {}
    /\ syncHost = host
    /\ syncInstances = instances
    /\ \E v \in 1..MaxVersion :
         /\ dbs = [n \in DbNames |->
                     [version |-> IF n = "app" THEN v ELSE 1, stores |-> NoStores]]
         /\ conns = <<[name |-> "app", version |-> v, open |-> TRUE,
                       closeCalls |-> 0]>>
         /\ calls = <<[NewCall("open", "app", NoSchema, 0)
                       EXCEPT !.pc = "done", !.promise = "resolved",
                              !.result = 1, !.exists = "yes",
                              !.nameExisted = TRUE, !.versionThen = v,
                              !.events = <<"success">>]>>
    /\ reqs = <<[Request("open", "app", NoVersion, 1) EXCEPT !.state = "done"]>>
    /\ idbs = <<NewIndexedDB(1, conns[1])>>
    /\ IdleTx
    /\ IdleSM
    /\ IdleErr

\* one instance, closed and reopened while other pages change, delete and
\* make its database
NextReopen ==
    \/ close
    \/ reopen
    \/ reopen_then
    \/ upgradeneeded
    \/ blocked
    \/ error
    \/ success
    \/ otherPageCreates
    \/ otherPageUpgrades
    \/ otherPageDeletes

SpecReopen == InitReopen /\ [][NextReopen]_vars

\* the states SpecReopen starts in
OpenedAndConnected ==
    /\ DOMAIN dbs = DbNames
    /\ dbs[ClassName] = [version |-> 1, stores |-> NoStores]
    /\ dbs["app"].stores = NoStores
    /\ conns = <<[name |-> "app", version |-> dbs["app"].version,
                  open |-> TRUE, closeCalls |-> 0]>>
    /\ calls = <<[NewCall("open", "app", NoSchema, 0)
                  EXCEPT !.pc = "done", !.promise = "resolved",
                         !.result = 1, !.exists = "yes",
                         !.nameExisted = TRUE,
                         !.versionThen = dbs["app"].version,
                         !.events = <<"success">>]>>
    /\ reqs = <<[Request("open", "app", NoVersion, 1) EXCEPT !.state = "done"]>>
    /\ idbs = <<NewIndexedDB(1, conns[1])>>

\* ------------------------------------------------------------------------
\* Transaction (indexed_db.ts) and beginTransaction
\* ------------------------------------------------------------------------

\* Transaction wrappers built in one run
MaxTxs == 2

\* abort() and commit() calls one host transaction receives in one run
MaxEndCalls == 2

\* the store lists beginTransaction is called with: a store of Schema and
\* a store no database has
StoreLists == {<<"s">>, <<"zz">>}

\* the names Transaction.store is called with: the store of StoreLists and
\* a store of the database the transaction does not cover
StoreNames == {"s", "t"}

\* enum TransactionMode
TransactionMode == {"readonly", "readwrite"}

\* IDBDatabase.transaction(storeNames, mode) throws a NotFoundError when a
\* named store is not in the database
TransactionThrows(db, storeNames) ==
    \E j \in DOMAIN storeNames : storeNames[j] \notin DOMAIN db.stores

\* IDBDatabase.transaction(storeNames, mode)
NewHostTx(storeNames, mode) ==
    [stores |-> {storeNames[j] : j \in DOMAIN storeNames}, mode |-> mode,
     state |-> "active", endCalls |-> 0]

\* beginTransaction(stores, mode): what it throws, "" when it returns
beginTransaction(idb, db, stores, mode) ==
    IF ~isConnected(idb)
    THEN [threw |-> "IndexedDBError", hostCalls |-> 0]
    ELSE IF TransactionThrows(db, stores)
    THEN [threw |-> "NotFoundError", hostCalls |-> 1]
    ELSE [threw |-> "", hostCalls |-> 1]

\* new Transaction(transaction)
NewTransaction(transaction) == [transaction |-> transaction]

\* IDBTransaction.abort() / commit(): an InvalidStateError once the
\* transaction has finished
EndThrows(hostTx) == hostTx.state # "active"

\* abort() / commit(): if (this.transaction) { host call; this.transaction = null }
end(tx, hostTx) ==
    IF tx.transaction # 0
    THEN IF EndThrows(hostTx)
         THEN [tx |-> tx, hostTx |-> [hostTx EXCEPT !.endCalls = @ + 1],
               threw |-> "InvalidStateError", hostCalls |-> 1]
         ELSE [tx |-> [tx EXCEPT !.transaction = 0],
               hostTx |-> [hostTx EXCEPT !.endCalls = @ + 1, !.state = "finished"],
               threw |-> "", hostCalls |-> 1]
    ELSE [tx |-> tx, hostTx |-> hostTx, threw |-> "", hostCalls |-> 0]

\* abort()
abort(tx, hostTx) == end(tx, hostTx)

\* commit()
commit(tx, hostTx) == end(tx, hostTx)

\* IDBTransaction.objectStore(name): an InvalidStateError once the
\* transaction has finished, a NotFoundError for a store outside its scope
ObjectStoreThrows(hostTx, name) ==
    hostTx.state # "active" \/ name \notin hostTx.stores

\* store(name): this.transaction?.objectStore(name), null when that throws
Transaction_store(tx, hostTx, name) ==
    IF tx.transaction = 0 THEN "undefined"
    ELSE IF ObjectStoreThrows(hostTx, name) THEN "null"
    ELSE "IDBObjectStore"

\* get mode(): this.transaction?.mode
mode(tx, hostTx) ==
    IF tx.transaction = 0 THEN "undefined" ELSE hostTx.mode

BeginTransaction ==
    \E i \in DOMAIN idbs, stores \in StoreLists, m \in TransactionMode :
        LET r == beginTransaction(idbs[i], dbs[idbs[i].name], stores, m)
        IN /\ IF r.threw = ""
              THEN /\ Len(txs) < MaxTxs
                   /\ hostTxs' = Append(hostTxs, NewHostTx(stores, m))
                   /\ txs' = Append(txs, NewTransaction(Len(hostTxs) + 1))
              ELSE UNCHANGED <<txs, hostTxs>>
           /\ lastTx' = [op |-> "beginTransaction", tx |-> i, name |-> "",
                         held |-> isConnected(idbs[i]),
                         result |-> r.threw, hostCalls |-> r.hostCalls]
           /\ UNCHANGED <<idbVars, webVars, smVars, errVars>>

\* the effect of an abort() or commit() call on wrapper t
EndCall(op, t, r) ==
    /\ hostTxs[t].endCalls < MaxEndCalls
    /\ txs' = [txs EXCEPT ![t] = r.tx]
    /\ hostTxs' = [hostTxs EXCEPT ![t] = r.hostTx]
    /\ lastTx' = [op |-> op, tx |-> t, name |-> "",
                  held |-> txs[t].transaction # 0,
                  result |-> r.threw, hostCalls |-> r.hostCalls]
    /\ UNCHANGED <<idbVars, webVars, smVars, errVars>>

Abort == \E t \in DOMAIN txs : EndCall("abort", t, abort(txs[t], hostTxs[t]))

Commit == \E t \in DOMAIN txs : EndCall("commit", t, commit(txs[t], hostTxs[t]))

TransactionStore ==
    \E t \in DOMAIN txs, name \in StoreNames :
        /\ lastTx' = [op |-> "store", tx |-> t, name |-> name,
                      held |-> txs[t].transaction # 0,
                      result |-> Transaction_store(txs[t], hostTxs[t], name),
                      hostCalls |-> IF txs[t].transaction = 0 THEN 0 ELSE 1]
        /\ UNCHANGED <<txs, hostTxs, idbVars, webVars, smVars, errVars>>

Mode ==
    \E t \in DOMAIN txs :
        /\ lastTx' = [op |-> "mode", tx |-> t, name |-> "",
                      held |-> txs[t].transaction # 0,
                      result |-> mode(txs[t], hostTxs[t]), hostCalls |-> 0]
        /\ UNCHANGED <<txs, hostTxs, idbVars, webVars, smVars, errVars>>

\* the host commits a transaction that has no request left to run
autoCommit ==
    \E t \in DOMAIN hostTxs :
        /\ hostTxs[t].state = "active"
        /\ hostTxs' = [hostTxs EXCEPT ![t].state = "finished"]
        /\ UNCHANGED <<txs, lastTx, idbVars, webVars, smVars, errVars>>

\* create(Schema("app")) has resolved with a connected instance
InitTx ==
    /\ host = [t \in StorageTypes |-> EmptyStorage]
    /\ local = 0
    /\ session = 0
    /\ instances = <<>>
    /\ last = Call("none", "Local", "", None, None, 0, <<>>, None, "none")
    /\ written = [t \in StorageTypes |-> EmptyStorage]
    /\ latest = [t \in StorageTypes |-> EmptyMap]
    /\ refused = {}
    /\ syncHost = host
    /\ syncInstances = instances
    /\ dbs = [n \in {"app"} |->
                [version |-> 1,
                 stores |-> createStores(NoStores, Schema("app").objectStores)]]
    /\ conns = <<[name |-> "app", version |-> 1, open |-> TRUE, closeCalls |-> 0]>>
    /\ reqs = <<[Request("open", "app", 1, 1) EXCEPT !.state = "done"]>>
    /\ calls = <<[NewCall("create", "app", Schema("app"), 0)
                  EXCEPT !.pc = "done", !.promise = "resolved", !.result = 1,
                         !.exists = "no",
                         !.events = <<"upgradeneeded", "success">>]>>
    /\ idbs = <<NewIndexedDB(1, conns[1])>>
    /\ IdleTx
    /\ IdleSM
    /\ IdleErr

NextTx ==
    \/ close
    \/ BeginTransaction
    \/ Abort
    \/ Commit
    \/ TransactionStore
    \/ Mode
    \/ autoCommit

SpecTx == InitTx /\ [][NextTx]_vars

\* the state SpecTx starts in
CreatedAndConnected ==
    /\ dbs = [n \in {"app"} |->
                [version |-> 1,
                 stores |-> createStores(NoStores, Schema("app").objectStores)]]
    /\ Len(conns) = 1 /\ Len(reqs) = 1 /\ Len(calls) = 1 /\ Len(idbs) = 1
    /\ conns[1] = [name |-> "app", version |-> 1, open |-> TRUE, closeCalls |-> 0]
    /\ reqs[1] = [Request("open", "app", 1, 1) EXCEPT !.state = "done"]
    /\ calls[1] = [NewCall("create", "app", Schema("app"), 0)
                   EXCEPT !.pc = "done", !.promise = "resolved", !.result = 1,
                          !.exists = "no",
                          !.events = <<"upgradeneeded", "success">>]
    /\ idbs[1] = NewIndexedDB(1, conns[1])

\* ------------------------------------------------------------------------
\* BrowserStorageManager (storage_manager.ts)
\* ------------------------------------------------------------------------

\* persist() calls made in one run
MaxPersists == 2

\* static get instance(): the constructor reads navigator.storage and calls
\* persisted(), whose answer comes later
getInstance ==
    /\ manager' = IF ~manager.made
                  THEN [made |-> TRUE, isPersisted |-> FALSE, checking |-> TRUE]
                  ELSE manager
    /\ UNCHANGED <<storageHost, persists, webVars, idbVars, txVars, errVars>>

\* the host answers persisted(): (persisted) => this._isPersisted = persisted
persisted_then ==
    /\ manager.checking
    /\ manager' = [manager EXCEPT !.isPersisted = storageHost.persisted,
                                  !.checking = FALSE]
    /\ UNCHANGED <<storageHost, persists, webVars, idbVars, txVars, errVars>>

\* get isPersisted()
isPersisted(m) == m.isPersisted

\* persist(), to `await this.manager.persist()` or to its return or throw
persist(m, h) ==
    IF isPersisted(m)
    THEN [pc |-> "done", promise |-> "resolved", error |-> "",
          requested |-> FALSE, persistedAtCall |-> h.persisted,
          hasPersistAtCall |-> h.hasPersist]
    ELSE IF ~h.hasPersist
    THEN [pc |-> "done", promise |-> "rejected", error |-> "Error",
          requested |-> FALSE, persistedAtCall |-> h.persisted,
          hasPersistAtCall |-> h.hasPersist]
    ELSE [pc |-> "await", promise |-> "pending", error |-> "",
          requested |-> TRUE, persistedAtCall |-> h.persisted,
          hasPersistAtCall |-> h.hasPersist]

Persist ==
    /\ manager.made
    /\ Len(persists) < MaxPersists
    /\ LET call == persist(manager, storageHost)
       IN /\ persists' = Append(persists, call)
          /\ storageHost' = IF call.requested
                            THEN [storageHost EXCEPT !.persistCalls = @ + 1]
                            ELSE storageHost
    /\ UNCHANGED <<manager, webVars, idbVars, txVars, errVars>>

\* the host answers persist(): the bucket is persistent if it was or if the
\* permission is granted now; this._isPersisted = await this.manager.persist()
persist_then ==
    \E c \in DOMAIN persists, granted \in BOOLEAN :
        /\ persists[c].pc = "await"
        /\ LET answer == storageHost.persisted \/ granted
           IN /\ storageHost' = [storageHost EXCEPT !.persisted = answer]
              /\ manager' = [manager EXCEPT !.isPersisted = answer]
        /\ persists' = [persists EXCEPT ![c].pc = "done",
                                        ![c].promise = "resolved"]
        /\ UNCHANGED <<webVars, idbVars, txVars, errVars>>

\* another page of the origin is granted the permission: the bucket is
\* persistent from then on
otherPagePersists ==
    /\ ~storageHost.persisted
    /\ storageHost' = [storageHost EXCEPT !.persisted = TRUE]
    /\ UNCHANGED <<manager, persists, webVars, idbVars, txVars, errVars>>

\* the singleton has not been read; the host may already have made the
\* bucket persistent, and may have no persist operation (a worker)
InitSM ==
    /\ host = [t \in StorageTypes |-> EmptyStorage]
    /\ local = 0
    /\ session = 0
    /\ instances = <<>>
    /\ last = Call("none", "Local", "", None, None, 0, <<>>, None, "none")
    /\ written = [t \in StorageTypes |-> EmptyStorage]
    /\ latest = [t \in StorageTypes |-> EmptyMap]
    /\ refused = {}
    /\ syncHost = host
    /\ syncInstances = instances
    /\ IdleIDB
    /\ IdleTx
    /\ IdleErr
    /\ \E p \in BOOLEAN, op \in BOOLEAN :
         storageHost = [persisted |-> p, hasPersist |-> op, persistCalls |-> 0]
    /\ manager = [made |-> FALSE, isPersisted |-> FALSE, checking |-> FALSE]
    /\ persists = <<>>

NextSM ==
    \/ getInstance
    \/ persisted_then
    \/ Persist
    \/ persist_then
    \/ otherPagePersists

SpecSM == InitSM /\ [][NextSM]_vars

\* ------------------------------------------------------------------------
\* Properties of IndexedDB
\* ------------------------------------------------------------------------

\* the calls of one method that have got past their databaseExists()
Past(op) ==
    {c \in DOMAIN calls : calls[c].op = op /\ calls[c].exists # "unknown"}

\* the first of the events a call's listeners got that is in the set, or
\* "none"
FirstOf(events, set) ==
    IF \E j \in DOMAIN events : events[j] \in set
    THEN events[CHOOSE j \in DOMAIN events :
                   /\ events[j] \in set
                   /\ \A k \in 1..(j - 1) : events[k] \notin set]
    ELSE "none"

\* C11: open(name) rejects with DBDoesNotExist exactly when no database
\* called name exists at the time it looks.
C11_OpenExisting ==
    \A c \in Past("open") :
        (calls[c].errorKind = "DBDoesNotExist") <=> ~calls[c].nameExisted

\* C12: create(schema) that finds a database named schema.name rejects with
\* DBExists and issues no host request; one that finds none issues exactly
\* one host request, open(schema.name, 1); the step of its 'upgradeneeded'
\* leaves every object store of the schema, with every index, in the
\* database; and the step that resolves it does so with an instance that is
\* connected to the database of that name.
C12_Create ==
    [][\A c \in DOMAIN calls' :
         LET call == calls'[c]
             issued == {r \in DOMAIN reqs' : reqs'[r].call = c}
             os == call.schema.objectStores
         IN (call.op = "create" /\ call.exists # "unknown") =>
              /\ call.nameExisted =>
                   /\ call.promise = "rejected"
                   /\ call.errorKind = "DBExists"
                   /\ issued = {}
              /\ ~call.nameExisted =>
                   /\ Cardinality(issued) = 1
                   /\ \A r \in issued :
                        /\ reqs'[r].kind = "open"
                        /\ reqs'[r].name = call.schema.name
                        /\ reqs'[r].version = 1
                   /\ (c \in DOMAIN calls /\ calls[c].events # call.events
                         /\ call.events[Len(call.events)] = "upgradeneeded") =>
                        /\ call.schema.name \in DOMAIN dbs'
                        /\ \A j \in DOMAIN os :
                             /\ os[j].name \in DOMAIN dbs'[call.schema.name].stores
                             /\ \A k \in DOMAIN os[j].indexes :
                                  os[j].indexes[k] \in
                                      dbs'[call.schema.name].stores[os[j].name]
                   /\ (c \in DOMAIN calls /\ calls[c].events # call.events
                         /\ call.events[Len(call.events)] = "success") =>
                        /\ call.promise = "resolved"
                        /\ call.result \in DOMAIN idbs'
                        /\ isConnected(idbs'[call.result])
                        /\ idbs'[call.result].name = call.schema.name
                        /\ conns'[idbs'[call.result].dbConnection].open
                        /\ conns'[idbs'[call.result].dbConnection].name
                             = call.schema.name
                   /\ call.promise = "resolved" =>
                        FirstOf(call.events, {"success", "blocked", "error"})
                            = "success"]_vars

\* one create() made the database, its stores and its index and resolved,
\* and a second create() of the same name was rejected with DBExists
C12_Witness ==
    \E c \in Past("create"), d \in Past("create") :
        /\ calls[c].promise = "resolved"
        /\ calls[c].events = <<"upgradeneeded", "success">>
        /\ calls[d].errorKind = "DBExists"
        /\ calls[d].name = calls[c].name
        /\ "i" \in dbs[calls[c].name].stores["s"]

\* C13: the step of a host 'blocked' event rejects a pending create() with
\* UpgradeBlocked, that of an 'error' event rejects a pending create() with
\* CreationFailed and a pending open() with OpenFailed; the listeners added
\* are the ones that do this; and no call issues a second host request.
C13_FailureEvents ==
    [][/\ Listener("create", "blocked") = "UpgradeBlocked"
       /\ Listener("create", "error") = "CreationFailed"
       /\ Listener("open", "error") = "OpenFailed"
       /\ \A c \in DOMAIN calls :
            LET heard == IF calls'[c].events # calls[c].events
                         THEN calls'[c].events[Len(calls'[c].events)]
                         ELSE "none"
                kind == CASE calls[c].op = "create" /\ heard = "blocked"
                               -> "UpgradeBlocked"
                          [] calls[c].op = "create" /\ heard = "error"
                               -> "CreationFailed"
                          [] calls[c].op = "open" /\ heard = "error"
                               -> "OpenFailed"
                          [] OTHER -> "none"
            IN /\ (kind # "none" /\ calls[c].promise = "pending") =>
                    /\ calls'[c].promise = "rejected"
                    /\ calls'[c].errorKind = kind
               /\ heard \in {"blocked", "error"} => Len(reqs') = Len(reqs)
               /\ Cardinality({r \in DOMAIN reqs' : reqs'[r].call = c}) <= 1]_vars

\* a create() was rejected with CreationFailed and an open() with
\* OpenFailed, each on the 'error' event of its one host request
C13_Witness ==
    \E c \in Past("create"), d \in Past("open") :
        /\ calls[c].events = <<"error">> /\ calls[c].errorKind = "CreationFailed"
        /\ calls[d].events = <<"error">> /\ calls[d].errorKind = "OpenFailed"

\* C14: reopen() on a connected instance resolves with no host request; the
\* step in which a reopen() finds its database gone rejects it with
\* DBDoesNotExist, issues no host request and leaves the instance
\* disconnected; a reopen() that finds its database at the instance's
\* version issues one host request, open(name, version), and the step of
\* that request's 'success', when no other event came before, resolves it
\* and leaves the instance connected.
C14_Reopen ==
    [][\A c \in DOMAIN calls' :
         LET call == calls'[c]
             this == idbs'[call.inst]
             issued == {r \in DOMAIN reqs' : reqs'[r].call = c}
         IN call.op = "reopen" =>
              /\ call.connectedAtCall =>
                   /\ call.promise = "resolved"
                   /\ issued = {}
              /\ (~call.connectedAtCall /\ call.exists # "unknown"
                    /\ ~call.nameExisted) =>
                   /\ call.promise = "rejected"
                   /\ call.errorKind = "DBDoesNotExist"
                   /\ issued = {}
                   /\ calls[c].exists = "unknown" =>
                        (idbs' = idbs /\ ~isConnected(this))
              /\ (~call.connectedAtCall /\ call.nameExisted
                    /\ call.versionThen = this.version) =>
                   /\ Cardinality(issued) = 1
                   /\ \A r \in issued :
                        /\ reqs'[r].kind = "open"
                        /\ reqs'[r].name = this.name
                        /\ reqs'[r].version = this.version
                   /\ (calls[c].events = <<>> /\ call.events = <<"success">>) =>
                        /\ call.promise = "resolved"
                        /\ isConnected(this)
                        /\ conns'[this.dbConnection].open
                        /\ conns'[this.dbConnection].name = this.name]_vars

\* a closed instance whose database is still there at its version was
\* reopened: the call resolved and the instance is connected
C14_Witness ==
    \E c \in Past("reopen") :
        /\ ~calls[c].connectedAtCall
        /\ calls[c].versionThen = idbs[calls[c].inst].version
        /\ calls[c].events = <<"success">>
        /\ calls[c].promise = "resolved"
        /\ isConnected(idbs[calls[c].inst])

\* C15: a reopen() that finds its database at another version than the one
\* the instance was connected at settles rejected with InvalidVersion.
C15_InvalidVersion ==
    \A c \in Past("reopen") :
        (/\ calls[c].nameExisted
         /\ calls[c].versionThen # idbs[calls[c].inst].version
         /\ calls[c].promise # "pending") =>
            /\ calls[c].promise = "rejected"
            /\ calls[c].errorKind = "InvalidVersion"

\* C16: an instance is connected when create() or open() resolves with it;
\* while it is not connected beginTransaction throws IndexedDBError; it
\* goes from not connected to connected only in the step in which a
\* reopen() of it resolves; and the host close() of a connection is called
\* at most once.
C16_Lifecycle ==
    [][/\ \A i \in DOMAIN idbs' :
            /\ i \notin DOMAIN idbs => isConnected(idbs'[i])
            /\ ~isConnected(idbs'[i]) =>
                 \A stores \in {<<"s">>, <<"zz">>} :
                    beginTransaction(idbs'[i], [stores |-> [s \in {} |-> {}]],
                                     stores, "readonly").threw = "IndexedDBError"
            /\ (i \in DOMAIN idbs /\ ~isConnected(idbs[i])
                  /\ isConnected(idbs'[i])) =>
                 \E c \in DOMAIN calls :
                    /\ calls[c].op = "reopen" /\ calls[c].inst = i
                    /\ calls[c].promise = "pending"
                    /\ calls'[c].promise = "resolved"
       /\ \A k \in DOMAIN conns' : conns'[k].closeCalls <= 1]_vars

\* C19: deleteDatabase(name) that finds no database called name resolves
\* with no host request; one that finds it issues exactly one host request,
\* deleteDatabase(name), and the step of that request's 'success' resolves
\* it, the step of its 'error' rejects it with DeletionFailed.
C19_Delete ==
    [][\A c \in DOMAIN calls' :
         LET call == calls'[c]
             issued == {r \in DOMAIN reqs' : reqs'[r].call = c}
             heard == IF c \in DOMAIN calls /\ calls[c].events # call.events
                      THEN call.events[Len(call.events)] ELSE "none"
         IN (call.op = "deleteDatabase" /\ call.exists # "unknown") =>
              /\ ~call.nameExisted =>
                   /\ call.promise = "resolved"
                   /\ issued = {}
              /\ call.nameExisted =>
                   /\ Cardinality(issued) = 1
                   /\ \A r \in issued :
                        reqs'[r].kind = "delete" /\ reqs'[r].name = call.name
                   /\ heard = "success" =>
                        /\ call.promise = "resolved"
                        /\ call.name \notin DOMAIN dbs'
                   /\ heard = "error" =>
                        /\ call.promise = "rejected"
                        /\ call.errorKind = "DeletionFailed"
                   /\ call.events = <<>> => call.promise = "pending"]_vars

\* one deleteDatabase() deleted its database on 'success' and another was
\* rejected with DeletionFailed on 'error'
C19_Witness ==
    \E c \in Past("deleteDatabase"), d \in Past("deleteDatabase") :
        /\ calls[c].events = <<"success">> /\ calls[c].promise = "resolved"
        /\ calls[d].events = <<"error">> /\ calls[d].errorKind = "DeletionFailed"

\* ------------------------------------------------------------------------
\* Properties of Transaction
\* ------------------------------------------------------------------------

\* C17: an abort() or commit() leaves the wrapper without its host
\* transaction, an abort() or commit() of a wrapper without one makes
\* no host call, and no host transaction receives more than one abort() or
\* commit().
C17_EndsOnce ==
    /\ lastTx.op \in {"abort", "commit"} =>
         /\ txs[lastTx.tx].transaction = 0
         /\ ~lastTx.held => lastTx.hostCalls = 0
    /\ \A t \in DOMAIN hostTxs : hostTxs[t].endCalls <= 1

\* C18: store(name) returns the object store when the wrapper holds its
\* transaction, the transaction is running and name is one of its stores,
\* and null in every other case.
C18_StoreOrNull ==
    lastTx.op = "store" =>
        lastTx.result =
            IF /\ txs[lastTx.tx].transaction # 0
               /\ hostTxs[lastTx.tx].state = "active"
               /\ lastTx.name \in hostTxs[lastTx.tx].stores
            THEN "IDBObjectStore" ELSE "null"

\* ------------------------------------------------------------------------
\* Properties of BrowserStorageManager
\* ------------------------------------------------------------------------

\* C20: a persist() called while the host reports the bucket as persisted
\* issues no host persist request, and a persist() called while it does
\* not, on a host without a persist operation, is rejected with an Error.
C20_PersistOnce ==
    \A c \in DOMAIN persists :
        /\ persists[c].persistedAtCall => ~persists[c].requested
        /\ (~persists[c].persistedAtCall /\ ~persists[c].hasPersistAtCall) =>
             /\ persists[c].promise = "rejected"
             /\ persists[c].error = "Error"

-----------------------------------------------------------------------------
\* IndexedDBError: the message of an error is read from its errorKind

\* how many errors the page constructs
MaxErrors == 2

\* a message getter in which OpenFailed repeats the text of CreationFailed
message_sameText(errorKind) ==
    CASE errorKind = "InvalidVersion" -> "DB version must be a positive integer."
      [] errorKind = "CreationFailed" -> "DB creation failed."
      [] errorKind = "OpenFailed" -> "DB creation failed."
      [] errorKind = "DeletionFailed" -> "DB deletion failed."
      [] errorKind = "DBExists" -> "DB with the same name already exists."
      [] errorKind = "DBDoesNotExist" -> "DB with the given name does not exist."
      [] errorKind = "UpgradeBlocked" -> "DB upgrade blocked by another connection."
      [] OTHER -> "Unknown error."

\* override get message(): switch (this.errorKind)
message(errorKind) ==
    CASE errorKind = "InvalidVersion" -> "DB version must be a positive integer."
      [] errorKind = "CreationFailed" -> "DB creation failed."
      [] errorKind = "OpenFailed" -> "DB open failed."
      [] errorKind = "DeletionFailed" -> "DB deletion failed."
      [] errorKind = "DBExists" -> "DB with the same name already exists."
      [] errorKind = "DBDoesNotExist" -> "DB with the given name does not exist."
      [] errorKind = "UpgradeBlocked" -> "DB upgrade blocked by another connection."
      [] OTHER -> "Unknown error."

\* the message of an error nobody has read yet
NotRead == "(not read)"

\* constructor(errorKind?): super(); this.errorKind = errorKind
NewIndexedDBError(errorKind) ==
    [errorKind |-> errorKind, message |-> NotRead]

\* new IndexedDBError(kind) and new IndexedDBError()
IndexedDBError_new ==
    \E errorKind \in IndexedDBErrorKind \cup {NoKind} :
        /\ Len(errors) < MaxErrors
        /\ errors' = Append(errors, NewIndexedDBError(errorKind))
        /\ UNCHANGED <<webVars, idbVars, txVars, smVars>>

\* error.message
getMessage ==
    \E e \in DOMAIN errors :
        /\ errors[e].message = NotRead
        /\ errors' = [errors EXCEPT ![e].message = message(errors[e].errorKind)]
        /\ UNCHANGED <<webVars, idbVars, txVars, smVars>>

InitError ==
    /\ host = [t \in StorageTypes |-> EmptyStorage]
    /\ local = 0
    /\ session = 0
    /\ instances = <<>>
    /\ last = Call("none", "Local", "", None, None, 0, <<>>, None, "none")
    /\ written = [t \in StorageTypes |-> EmptyStorage]
    /\ latest = [t \in StorageTypes |-> EmptyMap]
    /\ refused = {}
    /\ syncHost = host
    /\ syncInstances = instances
    /\ IdleIDB
    /\ IdleTx
    /\ IdleSM
    /\ IdleErr

NextError ==
    \/ IndexedDBError_new
    \/ getMessage

SpecError == InitError /\ [][NextError]_vars

\* C21: the message of an IndexedDBError is determined by its errorKind: the
\* same kind always reads the same text and two kinds never read the same
\* text; InvalidVersion reads 'DB version must be a positive integer.',
\* UpgradeBlocked reads 'DB upgrade blocked by another connection.', and an
\* error built without a kind reads 'Unknown error.', which no kind reads.
C21_Message ==
    LET read == {e \in DOMAIN errors : errors[e].message # NotRead}
    IN /\ \A e \in read :
            /\ errors[e].errorKind = "InvalidVersion" =>
                 errors[e].message = "DB version must be a positive integer."
            /\ errors[e].errorKind = "UpgradeBlocked" =>
                 errors[e].message = "DB upgrade blocked by another connection."
            /\ errors[e].errorKind = NoKind <=>
                 errors[e].message = "Unknown error."
       /\ \A e \in read, f \in read :
            (errors[e].errorKind = errors[f].errorKind) <=>
                (errors[e].message = errors[f].message)

\* the messages of an error with a kind and of one without have been read
C21_Witness ==
    \E e \in DOMAIN errors, f \in DOMAIN errors :
        /\ errors[e].errorKind = "UpgradeBlocked"
        /\ errors[e].message # NotRead
        /\ errors[f].errorKind = NoKind
        /\ errors[f].message # NotRead

-----------------------------------------------------------------------------
\* C22: localIsAvailable() / sessionIsAvailable() return true when the probe
\* write and the probe removal succeed; when the write raises a DOMException
\* they return true if it is a QuotaExceededError and the storage holds an
\* entry, and false otherwise; an error that is not a DOMException is thrown
\* to the caller.
C22_ProbeResult ==
    [][\A t \in StorageTypes, outcome \in SetItemOutcomes :
         Probe(t, outcome) =>
           /\ last'.op = (IF t = "Local" THEN "localIsAvailable"
                          ELSE "sessionIsAvailable")
           /\ last'.result =
                IF outcome = "ok" THEN Bool(TRUE)
                ELSE IF outcome \in DOMExceptionNames
                THEN Bool(outcome = "QuotaExceededError" /\ DOMAIN host[t] # {})
                ELSE Throw(outcome)]_vars

\* localIsAvailable() returned true although the probe entry is still
\* there: the write raised QuotaExceededError on a storage that is not empty
C22_Witness ==
    /\ last.op = "localIsAvailable"
    /\ last.result = Bool(TRUE)
    /\ ProbeKey \in DOMAIN host["Local"]

-----------------------------------------------------------------------------
\* Progress of the asynchronous IndexedDB calls

\* the continuation of a call after `await IndexedDB.databaseExists(...)`:
\* a microtask, run once the host has answered databases()
Continues ==
    \/ IndexedDB_create_then
    \/ IndexedDB_open_then
    \/ deleteDatabase_then
    \/ reopen_then

\* the host works on a request it can run: the version change of an open
\* request, its 'success', or the 'success' of a delete request
HostRuns ==
    \/ upgradeneeded
    \/ success
    \/ deleted

\* the static and instance methods of IndexedDB, with an event loop that
\* runs every continuation and a host that leaves no runnable request
\* waiting; whether a request fails, and whether the page closes its
\* connections, stays open
FairSpecIDB ==
    /\ InitIDB
    /\ [][NextIDB]_vars
    /\ WF_vars(Continues)
    /\ WF_vars(HostRuns)

\* the listeners of the call's request have got the event
Heard(c, event) ==
    IF c \in DOMAIN calls
    THEN \E j \in DOMAIN calls[c].events : calls[c].events[j] = event
    ELSE FALSE

\* the promise the call returned is in the state
Promise(c, state) ==
    IF c \in DOMAIN calls THEN calls[c].promise = state ELSE FALSE

\* C23: the promise of every create, open, reopen and deleteDatabase call
\* settles once its request fires the terminal event: after 'success' the
\* promise is resolved, after 'error' it is rejected.
C23_Settles ==
    \A c \in 1..MaxCalls :
        /\ Heard(c, "success") ~> Promise(c, "resolved")
        /\ Heard(c, "error") ~> Promise(c, "rejected")

====
